---- MODULE Spec2Model ----
(***************************************************************************)
(* Verification model of lucaa-smn/BI-Project:                             *)
(*   - models/anomaly_detection.py : rolling statistics, z-scores and the  *)
(*     anomaly report over one airport's daily delay series;               *)
(*   - models/delay_logreg.py      : the persisted model artifact shared   *)
(*     by train_model (writer) and predict_delay_proba (readers).          *)
(*                                                                         *)
(* Numbers.  avg_dep_delay values are integers or NaN.  A rolling mean is  *)
(* an exact rational p/q; a rolling standard deviation and a z-score are   *)
(* signed square roots of rationals, s * sqrt(p/q).  All are kept in       *)
(* lowest terms, so equality of records is equality of values.  Floating   *)
(* point rounding is not modelled.                                         *)
(***************************************************************************)
EXTENDS Integers, Sequences, FiniteSets, TLC

VARIABLES
  zdf,      \* _compute_z_scores: the caller's DataFrame (sequence of rows)
  zwindow,  \* _compute_z_scores: argument window
  zminp,    \* _compute_z_scores: argument min_periods
  zres,     \* _compute_z_scores: the returned value (or the raised error)
  zpc,      \* "call" before the call, "done" after it
  fact,     \* warehouse: the airport's daily groups of fact_flights, by date
  dargs,    \* detect_anomalies: the arguments of the call
  dres,     \* detect_anomalies: the returned frame (or the raised error)
  dprev,    \* detect_anomalies: what the call before the last one returned
  dpc,      \* "call" before the first call, "done" after it, then "repeated"
  lres,     \* detect_anomalies_list: the returned list (or the raised error)
  lpc,      \* "call" before the call, "done" after it
  disk,     \* the file models/logreg_delay.pkl
  train,    \* the train_model run: its position and its locals
  readers,  \* the predict_delay_proba calls: position, locals and outcome
  persisted, \* history: number of artifacts completely written to the file
  cb,       \* run_predictive_delay: the form state, the call and its result
  td        \* train_model on data: the frames and locals of one run

anomalyVars ==
  <<zdf, zwindow, zminp, zres, zpc, fact, dargs, dres, dprev, dpc, lres, lpc>>

modelVars == <<disk, train, readers, persisted>>

callbackVars == <<cb>>

dataVars == <<td>>

vars == <<zdf, zwindow, zminp, zres, zpc, fact, dargs, dres, dprev, dpc,
          lres, lpc, disk, train, readers, persisted, cb, td>>

(***************************************************************************)
(* Bounds of the model                                                     *)
(***************************************************************************)
MaxLen == 4       \* longest series passed to _compute_z_scores

MaxWindow == 3    \* largest window argument
MaxAnyLen == 2    \* longest series passed with unchecked window arguments
MaxSpikeLen == 13 \* longest generated single-spike series
MaxSpikeWindow == 12  \* largest window used on a generated single-spike series
MaxDay == 3       \* calendar days covered by the warehouse
MaxDetectWindow == 2  \* largest window argument of detect_anomalies
MaxTrainRuns == 2 \* train_model runs in one behaviour
NumReaders == 1   \* predict_delay_proba callers running beside train_model
PickleChunks == 2 \* writes joblib.dump needs to put one artifact on disk
MaxClicks == 1    \* n_clicks ranges over None and 0..MaxClicks
MaxRows == 4      \* most rows load_training_data returns

(***************************************************************************)
(* The synthetic series of test_anomaly_detection_zscore_detects_obvious_  *)
(* spike                                                                   *)
(***************************************************************************)
TestLen == 60
TestBaseDelay == 10
TestSpikeDelay == 60
TestSpikeIdx == 40
TestNormalIdx == 20
TestWindow == 30
TestMinPeriods == 10

(***************************************************************************)
(* Arithmetic                                                              *)
(***************************************************************************)
Abs(x) == IF x < 0 THEN -x ELSE x

Sign(x) == IF x < 0 THEN -1 ELSE IF x = 0 THEN 0 ELSE 1

Max(a, b) == IF a >= b THEN a ELSE b

RECURSIVE GCD(_, _)
GCD(a, b) == IF b = 0 THEN a ELSE GCD(b, a % b)

\* A DataFrame cell of avg_dep_delay: a number or NaN.
Cell(v) == [nan |-> FALSE, v |-> v]

NaNCell == [nan |-> TRUE, v |-> 0]

\* The rational p/q (q > 0) in lowest terms.
Rat(p, q) ==
  LET g == GCD(Abs(p), q)
  IN  [nan |-> FALSE, p |-> p \div g, q |-> q \div g]

NaNRat == [nan |-> TRUE, p |-> 0, q |-> 1]

\* The real number s * sqrt(p/q) (p >= 0, q > 0), in lowest terms.
Root(s, p, q) ==
  LET g == GCD(p, q)
  IN  IF p = 0 \/ s = 0
        THEN [k |-> "num", s |-> 0, p |-> 0, q |-> 1]
        ELSE [k |-> "num", s |-> s, p |-> p \div g, q |-> q \div g]

NaNRoot == [k |-> "nan", s |-> 0, p |-> 0, q |-> 1]

InfRoot(s) == [k |-> "inf", s |-> s, p |-> 0, q |-> 1]

\* The float 0.0.
Zero == Root(0, 0, 1)

IsZero(r) == r.k = "num" /\ r.s = 0

\* Series.isna() on a rolling_std value.
IsNaRoot(r) == r.k = "nan"

\* cell - rat, NaN-propagating (avg_dep_delay - rolling_mean).
SubCellRat(c, m) ==
  IF c.nan \/ m.nan THEN NaNRat ELSE Rat(c.v * m.q - m.p, m.q)

\* d / r in float arithmetic: NaN propagates, x/0 is +-inf, 0/0 is NaN.
DivRatRoot(d, r) ==
  IF d.nan \/ r.k = "nan" THEN NaNRoot
  ELSE IF IsZero(r) THEN (IF d.p = 0 THEN NaNRoot ELSE InfRoot(Sign(d.p)))
  ELSE Root(Sign(d.p), d.p * d.p * r.q, d.q * d.q * r.p)

\* Series.mask(cond, other): other where cond holds, the value elsewhere.
Mask(value, cond, other) == IF cond THEN other ELSE value

(***************************************************************************)
(* pandas: sort_values and rolling(window, min_periods)                    *)
(***************************************************************************)
\* df.sort_values("date") of rows with pairwise distinct dates.
SortByDate(df) ==
  [i \in 1..Len(df) |->
     CHOOSE r \in {df[j] : j \in 1..Len(df)} :
       Cardinality({j \in 1..Len(df) : df[j].date < r.date}) = i - 1]

\* Rolling._validate: the conditions under which .rolling(...) raises.
RollingValid(window, min_periods) ==
  window >= 0 /\ min_periods >= 0 /\ min_periods <= window

\* Number of non-NaN observations at positions lo..hi.
RECURSIVE Nobs(_, _, _)
Nobs(s, lo, hi) ==
  IF lo > hi THEN 0
  ELSE (IF s[lo].avg_dep_delay.nan THEN 0 ELSE 1) + Nobs(s, lo + 1, hi)

\* Sum of the non-NaN observations at positions lo..hi.
RECURSIVE SumX(_, _, _)
SumX(s, lo, hi) ==
  IF lo > hi THEN 0
  ELSE (IF s[lo].avg_dep_delay.nan THEN 0 ELSE s[lo].avg_dep_delay.v)
       + SumX(s, lo + 1, hi)

\* Sum of squares of the non-NaN observations at positions lo..hi.
RECURSIVE SumXX(_, _, _)
SumXX(s, lo, hi) ==
  IF lo > hi THEN 0
  ELSE (IF s[lo].avg_dep_delay.nan THEN 0
        ELSE s[lo].avg_dep_delay.v * s[lo].avg_dep_delay.v)
       + SumXX(s, lo + 1, hi)

\* Mutant of WindowStart: a window that reaches one row too far back.
WindowStartOffByOne(i, window) == Max(1, i - window)

\* First position of the fixed trailing window that ends at position i.
WindowStart(i, window) == Max(1, i - window + 1)

\* Mutant of RollingMean: min_periods is ignored (any observation suffices).
RollingMeanNoMinPeriods(s, i, window, min_periods) ==
  LET lo == WindowStart(i, window)
      n == Nobs(s, lo, i)
  IN  IF n > 0 THEN Rat(SumX(s, lo, i), n) ELSE NaNRat

\* .rolling(window, min_periods).mean() at position i.
RollingMean(s, i, window, min_periods) ==
  LET lo == WindowStart(i, window)
      n == Nobs(s, lo, i)
  IN  IF n >= min_periods /\ n > 0 THEN Rat(SumX(s, lo, i), n) ELSE NaNRat

\* Mutant of RollingStd: the sample standard deviation (ddof=1).
RollingStdSample(s, i, window, min_periods) ==
  LET lo == WindowStart(i, window)
      n == Nobs(s, lo, i)
      sx == SumX(s, lo, i)
  IN  IF n >= min_periods /\ n > 1
        THEN Root(1, n * SumXX(s, lo, i) - sx * sx, n * (n - 1))
        ELSE NaNRoot

\* .rolling(window, min_periods).std(ddof=0) at position i.
RollingStd(s, i, window, min_periods) ==
  LET lo == WindowStart(i, window)
      n == Nobs(s, lo, i)
      sx == SumX(s, lo, i)
  IN  IF n >= min_periods /\ n > 0
        THEN Root(1, n * SumXX(s, lo, i) - sx * sx, n * n)
        ELSE NaNRoot

(***************************************************************************)
(* anomaly_detection._compute_z_scores                                     *)
(***************************************************************************)
\* Mutant of ZScore: the rolling mean is not subtracted.
ZScoreNotCentered(x, mean, std) ==
  Mask(DivRatRoot(SubCellRat(x, Rat(0, 1)), std), IsNaRoot(std) \/ IsZero(std), Zero)

\* Mutant of ZScore: the quotient is returned without the mask.
ZScoreUnmasked(x, mean, std) == DivRatRoot(SubCellRat(x, mean), std)

\* Mutant of ZScore: the mask covers a null rolling_std only, not a zero one.
ZScoreMaskNullOnly(x, mean, std) ==
  Mask(DivRatRoot(SubCellRat(x, mean), std), IsNaRoot(std), Zero)

\* The z_score column of one row: the quotient, then the mask.
ZScore(x, mean, std) ==
  Mask(DivRatRoot(SubCellRat(x, mean), std), IsNaRoot(std) \/ IsZero(std), Zero)

\* One row of the returned frame: the input row plus the three new columns.
ZRow(s, i, window, min_periods) ==
  LET mean == RollingMean(s, i, window, min_periods)
      std == RollingStd(s, i, window, min_periods)
  IN  [date |-> s[i].date,
       avg_dep_delay |-> s[i].avg_dep_delay,
       num_flights |-> s[i].num_flights,
       rolling_mean |-> mean,
       rolling_std |-> std,
       z_score |-> ZScore(s[i].avg_dep_delay, mean, std)]

compute_z_scores(df, window, min_periods) ==
  IF df = <<>> THEN [err |-> "none", rows |-> <<>>]
  ELSE IF ~RollingValid(window, min_periods)
    THEN [err |-> "ValueError", rows |-> <<>>]
  ELSE LET s == SortByDate(df)
       IN  [err |-> "none",
            rows |-> [i \in 1..Len(s) |-> ZRow(s, i, window, min_periods)]]

(***************************************************************************)
(* delay_logreg: feature-name lists                                        *)
(***************************************************************************)
\* prepare_features: feature_cols_cat and feature_cols_num.
PrepareCategorical ==
  <<"dep_airport_id", "arr_airport_id", "airline_id", "dep_time_label",
    "month", "day_of_week", "is_weekend">>

PrepareNumeric == <<"tavg", "prcp", "wspd", "num_departures_same_slot_airport">>

\* train_model: categorical_features and numeric_features.
TrainCategorical ==
  <<"dep_airport_id", "arr_airport_id", "airline_id", "dep_time_label",
    "month", "day_of_week", "is_weekend">>

TrainNumeric == <<"tavg", "prcp", "wspd", "num_departures_same_slot_airport">>

\* Mutant of InferenceColumns: the congestion count is placed first among
\* the numeric columns and the weekend flag is left out.
InferenceColumnsDrifted ==
  <<"dep_airport_id", "arr_airport_id", "airline_id", "dep_time_label",
    "month", "day_of_week",
    "num_departures_same_slot_airport", "tavg", "prcp", "wspd">>

\* predict_delay_proba: the keys of the single-row record, in order.
InferenceColumns ==
  <<"dep_airport_id", "arr_airport_id", "airline_id", "dep_time_label",
    "month", "day_of_week", "is_weekend",
    "tavg", "prcp", "wspd", "num_departures_same_slot_airport">>

Range(s) == {s[i] : i \in 1..Len(s)}

(***************************************************************************)
(* delay_logreg: the artifact and the file that holds it                   *)
(***************************************************************************)
\* Mutant of Metrics: the last threshold of the loop of lines 245-253 is
\* kept in the dict.
MetricsWithThreshold(run) ==
  [accuracy |-> run, precision |-> run, recall |-> run, roc_auc |-> run,
   threshold |-> run]

\* Lines 255-260: the dict metrics; the four values are those computed in
\* run number run.
Metrics(run) ==
  [accuracy |-> run, precision |-> run, recall |-> run, roc_auc |-> run]

\* The dict train_model dumps: pipeline, the two lists, metrics.
Artifact(run, cat, num) ==
  [pipeline |-> [fitted_in |-> run, columns |-> cat \o num],
   categorical_features |-> cat,
   numeric_features |-> num,
   metrics |-> Metrics(run)]

NoArtifact == Artifact(-1, <<>>, <<>>)

\* The file does not exist.
Absent == [exists |-> FALSE, written |-> 0, art |-> NoArtifact]

\* The file holds the first n of the PickleChunks writes of artifact a.
FileWith(a, n) == [exists |-> TRUE, written |-> n, art |-> a]

\* Artifacts a file at the path may hold before any run of this train_model:
\* one whose numeric list is ordered differently, one fitted with a column
\* the inference record does not have.
EarlierArtifacts ==
  { Artifact(0, TrainCategorical,
             <<"num_departures_same_slot_airport", "tavg", "prcp", "wspd">>),
    Artifact(0, TrainCategorical \o <<"distance">>, TrainNumeric) }

(***************************************************************************)
(* delay_logreg.train_model                                                *)
(***************************************************************************)
\* What the last train_model call gave its caller: nothing yet, the metrics,
\* or an exception.
NoReturn == [err |-> "pending", metrics |-> Metrics(-1)]

\* before is the file as the running call found it; returned is what the
\* last finished call returned or raised.
TrainIdle(runs) ==
  [pc |-> "idle", runs |-> runs, xcols |-> <<>>, art |-> NoArtifact,
   before |-> Absent, returned |-> NoReturn]

\* Lines 210-212: load_training_data and prepare_features give X.
TrainPrepare ==
  /\ train.pc = "idle"
  /\ train.runs < MaxTrainRuns
  /\ train' = [train EXCEPT !.pc = "prepared",
                            !.xcols = PrepareCategorical \o PrepareNumeric,
                            !.before = disk,
                            !.returned = NoReturn]
  /\ UNCHANGED <<disk, readers, persisted>>
  /\ UNCHANGED <<anomalyVars, callbackVars, dataVars>>

\* Lines 214-267: build_pipeline, split, fit, metrics.
TrainFit ==
  /\ train.pc = "prepared"
  /\ train' = [train EXCEPT !.pc = "fitted",
                            !.art = Artifact(train.runs + 1, TrainCategorical,
                                             TrainNumeric)]
  /\ UNCHANGED <<disk, readers, persisted>>
  /\ UNCHANGED <<anomalyVars, callbackVars, dataVars>>

\* Mutant of FileAfterFailure: the failing run leaves an empty file behind.
FileAfterFailureTruncated(file) == FileWith(NoArtifact, 0)

\* Lines 210-260 touch no file: model_path is computed at line 268 only.
FileAfterFailure(file) == file

\* Lines 210-259: the load or prepare_features raises (from "idle"), or the
\* split, the fit or a metric raises (from "prepared"); the run ends.
TrainFail ==
  /\ train.pc \in {"idle", "prepared"}
  /\ train.runs < MaxTrainRuns
  /\ train' = [TrainIdle(train.runs + 1) EXCEPT
                 !.before = IF train.pc = "idle" THEN disk ELSE train.before,
                 !.returned = [err |-> "Exception", metrics |-> Metrics(-1)]]
  /\ disk' = FileAfterFailure(disk)
  /\ UNCHANGED <<readers, persisted>>
  /\ UNCHANGED <<anomalyVars, callbackVars, dataVars>>

\* Line 270: joblib.dump opens the file for writing, which truncates it.
TrainOpen ==
  /\ train.pc = "fitted"
  /\ disk' = FileWith(train.art, 0)
  /\ train' = [train EXCEPT !.pc = "dumping"]
  /\ UNCHANGED <<readers, persisted>>
  /\ UNCHANGED <<anomalyVars, callbackVars, dataVars>>

\* Line 270: joblib.dump writes the next part of the pickle.
TrainWrite ==
  /\ train.pc = "dumping"
  /\ disk.written < PickleChunks
  /\ disk' = [disk EXCEPT !.written = disk.written + 1]
  /\ persisted' = IF disk.written + 1 = PickleChunks THEN persisted + 1 ELSE persisted
  /\ UNCHANGED <<train, readers>>
  /\ UNCHANGED <<anomalyVars, callbackVars, dataVars>>

\* Lines 279-281: the file is closed and the metrics are returned.
TrainReturn ==
  /\ train.pc = "dumping"
  /\ disk.written = PickleChunks
  /\ train' = [TrainIdle(train.runs + 1) EXCEPT
                 !.before = train.before,
                 !.returned = [err |-> "none", metrics |-> train.art.metrics]]
  /\ UNCHANGED <<disk, readers, persisted>>
  /\ UNCHANGED <<anomalyVars, callbackVars, dataVars>>

(***************************************************************************)
(* delay_logreg._load_trained_pipeline and predict_delay_proba             *)
(***************************************************************************)
\* A Python str is the sequence of its characters.
Whitespace == {" "}

\* str.strip(): leading and trailing whitespace is removed.
RECURSIVE LStrip(_)
LStrip(s) == IF s # <<>> /\ Head(s) \in Whitespace THEN LStrip(Tail(s)) ELSE s

RECURSIVE RStrip(_)
RStrip(s) ==
  IF s # <<>> /\ s[Len(s)] \in Whitespace
    THEN RStrip(SubSeq(s, 1, Len(s) - 1))
    ELSE s

Strip(s) == RStrip(LStrip(s))

\* str.upper() on the characters the inputs use.
UpperChar(c) ==
  CASE c = "j" -> "J"
    [] c = "f" -> "F"
    [] c = "k" -> "K"
    [] c = "l" -> "L"
    [] c = "m" -> "M"
    [] OTHER -> c

Upper(s) == [k \in 1..Len(s) |-> UpperChar(s[k])]

\* A Python number: its type and its value in tenths.
Num(type, tenths) == [type |-> type, tenths |-> tenths]

\* float(x): the float of the same value.
ToFloat(x) == Num("float", x.tenths)

\* int(x): the value truncated toward zero.
ToInt(x) == Num("int", Sign(x.tenths) * ((Abs(x.tenths) \div 10) * 10))

\* The default of the parameter num_departures_same_slot_airport.
DefaultSameSlot == Num("int", 10)

\* Arguments of predict_delay_proba.  none names the arguments passed as
\* None, omitted the arguments the call does not pass; the value field of
\* such an argument is meaningless.
PredictInputs ==
  { [airport_id |-> <<" ", "j", "f", "k", " ">>,
     airline_id |-> <<" ", "D", " ", "l", " ">>,
     dep_time_label |-> <<"A", "m", " ">>,
     tavg |-> Num("int", 50), prcp |-> Num("float", 5), wspd |-> Num("float", 102),
     num_departures_same_slot_airport |-> Num("int", 200),
     none |-> a[1], omitted |-> a[2]] :
       a \in { <<{}, {}>>,
               <<{"airport_id"}, {}>>,
               <<{}, {"num_departures_same_slot_airport"}>> } }

NoInput == CHOOSE i \in PredictInputs : i.none = {} /\ i.omitted = {}

\* The value bound to num_departures_same_slot_airport inside the call.
SameSlotArgument(i) ==
  IF "num_departures_same_slot_airport" \in i.omitted
    THEN DefaultSameSlot
    ELSE i.num_departures_same_slot_airport

\* Mutant of InferenceRecord: the arrival airport is the argument as passed.
InferenceRecordRawArrival(i) ==
  [dep_airport_id |-> Upper(Strip(i.airport_id)),
   arr_airport_id |-> i.airport_id,
   airline_id |-> Strip(i.airline_id),
   dep_time_label |-> Strip(i.dep_time_label),
   month |-> 1,
   day_of_week |-> 1,
   is_weekend |-> FALSE,
   tavg |-> ToFloat(i.tavg),
   prcp |-> ToFloat(i.prcp),
   wspd |-> ToFloat(i.wspd),
   num_departures_same_slot_airport |-> ToInt(SameSlotArgument(i))]

\* Lines 332-354: the one record of the frame handed to the pipeline.
InferenceRecord(i) ==
  [dep_airport_id |-> Upper(Strip(i.airport_id)),
   arr_airport_id |-> Upper(Strip(i.airport_id)),
   airline_id |-> Strip(i.airline_id),
   dep_time_label |-> Strip(i.dep_time_label),
   month |-> 1,
   day_of_week |-> 1,
   is_weekend |-> FALSE,
   tavg |-> ToFloat(i.tavg),
   prcp |-> ToFloat(i.prcp),
   wspd |-> ToFloat(i.wspd),
   num_departures_same_slot_airport |-> ToInt(SameSlotArgument(i))]

\* The record of a call that has not built its frame.
NoRecord ==
  [dep_airport_id |-> <<>>, arr_airport_id |-> <<>>, airline_id |-> <<>>,
   dep_time_label |-> <<>>, month |-> 0, day_of_week |-> 0, is_weekend |-> FALSE,
   tavg |-> Num("float", 0), prcp |-> Num("float", 0), wspd |-> Num("float", 0),
   num_departures_same_slot_airport |-> Num("int", 0)]

\* after is the number of artifacts that had been completely written when
\* the call started (history);
\* read is the number of pickle parts joblib.load found in the file (-1
\* before the file is read); loaded is the unpickled artifact; handed and
\* row are the columns and the record of the frame given to the pipeline.
ReaderIdle ==
  [pc |-> "idle", input |-> NoInput, after |-> 0, read |-> -1, loaded |-> NoArtifact,
   handed |-> <<>>, row |-> NoRecord, outcome |-> "none"]

\* Lines 330, 284-292: the call enters _load_trained_pipeline, which raises
\* FileNotFoundError unless the file exists.
PredictCall(r) ==
  /\ readers[r].pc = "idle"
  /\ \E i \in PredictInputs :
       readers' = [readers EXCEPT ![r] =
         [ReaderIdle EXCEPT
            !.input = i,
            !.after = persisted,
            !.pc = IF disk.exists THEN "load" ELSE "done",
            !.outcome = IF disk.exists THEN "none" ELSE "FileNotFoundError"]]
  /\ UNCHANGED <<disk, train, persisted>>
  /\ UNCHANGED <<anomalyVars, callbackVars, dataVars>>

\* Lines 294-296: joblib.load reads the file as it is now; an incomplete
\* pickle does not load.
PredictLoad(r) ==
  /\ readers[r].pc = "load"
  /\ readers' = [readers EXCEPT ![r] =
       IF disk.written = PickleChunks
         THEN [@ EXCEPT !.read = disk.written, !.loaded = disk.art, !.pc = "build"]
         ELSE [@ EXCEPT !.read = disk.written, !.pc = "done", !.outcome = "EOFError"]]
  /\ UNCHANGED <<disk, train, persisted>>
  /\ UNCHANGED <<anomalyVars, callbackVars, dataVars>>

\* What lines 332-357 end with for input i and the loaded pipeline.
PredictOutcome(i, pipeline, columns) ==
  IF i.none \cap {"airport_id", "airline_id", "dep_time_label"} # {}
    THEN "AttributeError"
  ELSE IF i.none \cap {"tavg", "prcp", "wspd", "num_departures_same_slot_airport"} # {}
    THEN "TypeError"
  ELSE IF ~(Range(pipeline.columns) \subseteq Range(columns)) THEN "ValueError"
  ELSE "probability"

\* Lines 332-357: the single-row frame is built and handed to the pipeline.
PredictBuild(r) ==
  /\ readers[r].pc = "build"
  /\ LET out == PredictOutcome(readers[r].input, readers[r].loaded.pipeline,
                               InferenceColumns)
     IN  readers' = [readers EXCEPT ![r] =
           [@ EXCEPT !.pc = "done",
                     !.outcome = out,
                     !.handed = IF out \in {"AttributeError", "TypeError"}
                                  THEN <<>> ELSE InferenceColumns,
                     !.row = IF out \in {"AttributeError", "TypeError"}
                               THEN NoRecord ELSE InferenceRecord(readers[r].input)]]
  /\ UNCHANGED <<disk, train, persisted>>
  /\ UNCHANGED <<anomalyVars, callbackVars, dataVars>>

\* The caller has its result (or its exception) and may call again.
PredictReturn(r) ==
  /\ readers[r].pc = "done"
  /\ readers' = [readers EXCEPT ![r] = ReaderIdle]
  /\ UNCHANGED <<disk, train, persisted>>
  /\ UNCHANGED <<anomalyVars, callbackVars, dataVars>>

\* No train_model or predict_delay_proba call is part of the run.
MIdle ==
  /\ disk = Absent
  /\ train = TrainIdle(MaxTrainRuns)
  /\ readers = [r \in 1..NumReaders |-> ReaderIdle]
  /\ persisted = 0

(***************************************************************************)
(* app/callbacks/predictive_delay.run_predictive_delay                     *)
(***************************************************************************)
\* The State arguments of the callback, in the order of lines 75-82.
CallbackInputs ==
  <<"airport_id", "airline_id", "dep_time_label", "tavg", "prcp", "wspd",
    "num_deps">>

\* Lines 88-101: the name each input is reported under (ue for u-umlaut).
InputLabel(name) ==
  CASE name = "airport_id" -> "Airport"
    [] name = "airline_id" -> "Airline"
    [] name = "dep_time_label" -> "Dep Time Label"
    [] name = "tavg" -> "tavg"
    [] name = "prcp" -> "prcp"
    [] name = "wspd" -> "wspd"
    [] name = "num_deps" -> "Anzahl Abfluege im Slot"

\* What a form field can hold: None, a falsy value ("" in a dropdown, 0 in a
\* number field) or any other value.
FormValues == {"none", "falsy", "value"}

\* n_clicks: None before the first click, then the number of clicks.
ClickValues ==
  {[isNone |-> TRUE, v |-> 0]} \cup {[isNone |-> FALSE, v |-> k] : k \in 0..MaxClicks}

\* Lines 88-101: "not value" for the three dropdowns, "value is None" for
\* the four number fields.
IsMissing(name, value) ==
  IF name \in {"airport_id", "airline_id", "dep_time_label"}
    THEN value \in {"none", "falsy"}
    ELSE value = "none"

\* Mutant of MissingLabels: the check stops at the first missing input.
MissingLabelsFirstOnly(values) ==
  LET names == SelectSeq(CallbackInputs, LAMBDA n : IsMissing(n, values[n]))
  IN  IF names = <<>> THEN <<>> ELSE <<InputLabel(names[1])>>

\* Lines 87-101: the list missing.
MissingLabels(values) ==
  LET names == SelectSeq(CallbackInputs, LAMBDA n : IsMissing(n, values[n]))
  IN  [k \in 1..Len(names) |-> InputLabel(names[k])]

\* ", ".join(labels)
RECURSIVE Join(_)
Join(labels) ==
  IF Len(labels) = 0 THEN <<>>
  ELSE IF Len(labels) = 1 THEN labels
  ELSE <<labels[1], ", ">> \o Join(Tail(labels))

\* The call predict_delay_proba(...) of lines 107-115 against the file as it
\* is: lines 284-296 and 330-357.  The callback passes all seven arguments.
PredictDelayProba(file) ==
  IF ~file.exists THEN "FileNotFoundError"
  ELSE IF file.written < PickleChunks THEN "EOFError"
  ELSE PredictOutcome(NoInput, file.art.pipeline, InferenceColumns)

\* The texts of lines 85, 104, 117-120, 122 and 126 (ae for a-umlaut, >= for
\* the sign).
PromptText == "Bitte Parameter waehlen und 'Vorhersage berechnen' klicken."

MissingText == "Fehlende Eingaben: "

NoModelText ==
  "Kein trainiertes Modell gefunden. Bitte zuerst das Modell trainieren (models/delay_logreg.py ausfuehren)."

ErrorText == "Fehler bei der Vorhersage: "

ResultText == "Geschaetzte Wahrscheinlichkeit fuer Delay >= 15 Minuten: "

CallbackIdle ==
  [pc |-> "idle", n_clicks |-> [isNone |-> TRUE, v |-> 0],
   values |-> [n \in Range(CallbackInputs) |-> "none"],
   called |-> FALSE, outcome |-> "none", raised |-> "none",
   text |-> "", detail |-> <<>>]

\* Lines 74-127: the state after the callback has run with n_clicks and the
\* form values, against the file as it is.  Every exception of the call is
\* an Exception, so the second except clause takes what the first leaves.
run_predictive_delay(n_clicks, values, file) ==
  LET base == [CallbackIdle EXCEPT !.pc = "done", !.n_clicks = n_clicks,
                                   !.values = values]
      missing == MissingLabels(values)
      out == PredictDelayProba(file)
  IN  IF n_clicks.isNone \/ n_clicks.v = 0
        THEN [base EXCEPT !.text = PromptText]
      ELSE IF missing # <<>>
        THEN [base EXCEPT !.text = MissingText, !.detail = Join(missing)]
      ELSE IF out = "probability"
        THEN [base EXCEPT !.called = TRUE, !.outcome = out,
                          !.text = ResultText, !.detail = <<"proba_pct", " %">>]
      ELSE IF out = "FileNotFoundError"
        THEN [base EXCEPT !.called = TRUE, !.outcome = out, !.text = NoModelText]
      ELSE [base EXCEPT !.called = TRUE, !.outcome = out,
                        !.text = ErrorText, !.detail = <<out>>]

\* The user clicks (or the page loads) and Dash runs the callback.
RunCallback ==
  /\ cb.pc = "idle"
  /\ \E n \in ClickValues, v \in [Range(CallbackInputs) -> FormValues] :
       cb' = run_predictive_delay(n, v, disk)
  /\ UNCHANGED <<anomalyVars, modelVars, dataVars>>

\* No callback is part of the run.
CIdle == cb = CallbackIdle

(***************************************************************************)
(* delay_logreg: one train_model run on data                               *)
(***************************************************************************)
\* Lines 105-117: required_for_model, the subset of the dropna of line 122.
RequiredForModel ==
  {"dep_airport_id", "arr_airport_id", "airline_id", "dep_time_label", "tavg",
   "prcp", "wspd", "month", "day_of_week", "is_weekend", "is_delayed_15"}

\* Mutant of DropNaSubset: the label is not part of the subset.
DropNaSubsetFeaturesOnly == RequiredForModel \ {"is_delayed_15"}

\* The subset argument of df.dropna at line 122.
DropNaSubset == RequiredForModel

\* Line 122: df.dropna(subset=...) keeps, in order and with their index, the
\* rows in which no column of the subset is null.
DropNa(df, subset) == SelectSeq(df, LAMBDA r : r.nulls \cap subset = {})

\* Mutant of CongestionKey: the departure-time label is not a grouping key.
CongestionKeyWithoutLabel(r) == <<r.flight_date_id, r.dep_airport_id>>

\* Lines 88 and 95: the grouping and join key of a row.
CongestionKey(r) == <<r.flight_date_id, r.dep_airport_id, r.dep_time_label>>

\* The columns of the key.
CongestionKeyColumns == {"flight_date_id", "dep_airport_id", "dep_time_label"}

\* Lines 87-91: groupby(...).size(): one entry per key with its number of
\* rows; groupby leaves out the rows in which a key column is null.
GroupSizes(df) ==
  LET keyed == {i \in 1..Len(df) : df[i].nulls \cap CongestionKeyColumns = {}}
  IN  [k \in {CongestionKey(df[i]) : i \in keyed} |->
         Cardinality({i \in keyed : CongestionKey(df[i]) = k})]

\* Lines 85-98: the copy of the frame with the joined column; a row whose
\* key finds no group gets NaN.
add_congestion_feature(df) ==
  LET group_sizes == GroupSizes(df)
  IN  [i \in 1..Len(df) |->
         [index |-> df[i].index,
          flight_date_id |-> df[i].flight_date_id,
          dep_airport_id |-> df[i].dep_airport_id,
          dep_time_label |-> df[i].dep_time_label,
          is_delayed_15 |-> df[i].is_delayed_15,
          nulls |-> df[i].nulls,
          num_departures_same_slot_airport |->
            IF df[i].nulls \cap CongestionKeyColumns = {}
                 /\ CongestionKey(df[i]) \in DOMAIN group_sizes
              THEN Cell(group_sizes[CongestionKey(df[i])])
              ELSE NaNCell]]

\* Lines 122-146: X (the eleven feature columns, of which the key columns
\* and the count are kept here) and y, row by row with the frame's index.
prepare_features(df) ==
  LET kept == DropNa(df, DropNaSubset)
      full == add_congestion_feature(kept)
  IN  [passed |-> kept,
       joined |-> full,
       X |-> [i \in 1..Len(full) |->
                [index |-> full[i].index,
                 dep_airport_id |-> full[i].dep_airport_id,
                 dep_time_label |-> full[i].dep_time_label,
                 num_departures_same_slot_airport |->
                   full[i].num_departures_same_slot_airport]],
       y |-> [i \in 1..Len(full) |->
                [index |-> full[i].index, label |-> full[i].is_delayed_15]]]

\* The numbers of rows of y with label 0 and with label 1.
ClassCounts(y) ==
  <<Cardinality({i \in 1..Len(y) : y[i].label = 0}),
    Cardinality({i \in 1..Len(y) : y[i].label = 1})>>

\* sklearn _approximate_mode for two classes: draws rows are shared out in
\* proportion to counts c, the one left over by the floors going to the
\* class with the larger remainder, to either class on a tie.
ApproximateMode(c, draws) ==
  LET n == c[1] + c[2]
      f1 == (c[1] * draws) \div n
      f2 == (c[2] * draws) \div n
      r1 == (c[1] * draws) % n
      r2 == (c[2] * draws) % n
  IN  IF draws - f1 - f2 = 0 THEN {<<f1, f2>>}
      ELSE IF r1 > r2 THEN {<<f1 + 1, f2>>}
      ELSE IF r2 > r1 THEN {<<f1, f2 + 1>>}
      ELSE {<<f1 + 1, f2>>, <<f1, f2 + 1>>}

\* test_size as a fraction <<p, q>>: n_test = ceil(test_size * n_samples).
NTest(test_size, n) == (test_size[1] * n + test_size[2] - 1) \div test_size[2]

\* Lines 230-236: train_test_split(..., stratify=y).  err is the ValueError
\* of _validate_shuffle_split (empty train set) or of StratifiedShuffleSplit
\* (a class with fewer than two members, a part smaller than the number of
\* classes); otherwise parts holds the class counts each possible split
\* gives y_train and y_valid.
train_test_split(y, test_size) ==
  LET n == Len(y)
      n_test == NTest(test_size, n)
      n_train == n - n_test
      counts == ClassCounts(y)
      present == {k \in 1..2 : counts[k] > 0}
  IN  IF n_train = 0 THEN [err |-> "ValueError", parts |-> {}]
      ELSE IF \E k \in present : counts[k] < 2 THEN [err |-> "ValueError", parts |-> {}]
      ELSE IF n_train < Cardinality(present) \/ n_test < Cardinality(present)
        THEN [err |-> "ValueError", parts |-> {}]
      ELSE [err |-> "none",
            parts |-> UNION { { [train |-> a, valid |-> b] :
                                  b \in ApproximateMode(<<counts[1] - a[1],
                                                          counts[2] - a[2]>>, n_test) } :
                              a \in ApproximateMode(counts, n_train) }]

\* The number of classes among rows counted per class.
NumClasses(c) == Cardinality({k \in 1..2 : c[k] > 0})

\* Mutant of FitRaises: a constant classifier is fitted on one class.
FitRaisesNever(y_train) == FALSE

\* Line 239: LogisticRegression(solver="lbfgs").fit raises ValueError unless
\* y_train holds two classes.
FitRaises(y_train) == NumClasses(y_train) < 2

\* Lines 255-260: with one class in y_valid roc_auc_score raises ValueError
\* or, in later releases, warns and gives nan.
MetricsOutcomes(y_valid) ==
  IF NumClasses(y_valid) < 2 THEN {"ValueError", "none"} ELSE {"none"}

\* Rows load_training_data can return, without their index.  Every row has a
\* flight_date_id (fact_flights is loaded with an integer date key); any
\* other column can be NULL, through the schema or a LEFT JOIN without match.
LoadedRows ==
  { [index |-> 0, flight_date_id |-> k[1], dep_airport_id |-> "JFK",
     dep_time_label |-> k[2], is_delayed_15 |-> l, nulls |-> {}] :
      k \in {<<1, "Morning">>, <<1, "Evening">>, <<2, "Morning">>}, l \in {0, 1} }
    \cup
  { [index |-> 0, flight_date_id |-> 1, dep_airport_id |-> "JFK",
     dep_time_label |-> "Morning", is_delayed_15 |-> 0, nulls |-> {c}] :
      c \in {"tavg", "is_delayed_15"} }
    \cup
  { [index |-> 0, flight_date_id |-> 1, dep_airport_id |-> "JFK",
     dep_time_label |-> "", is_delayed_15 |-> 1, nulls |-> {"dep_time_label"}] }

\* Frames of n loaded rows with the RangeIndex read_sql gives them.
LoadedFrames(n) ==
  { [i \in 1..n |-> [f[i] EXCEPT !.index = i - 1]] : f \in [1..n -> LoadedRows] }

\* test_size arguments: the default 0.2 and one half.
TestSizes == {<<1, 5>>, <<1, 2>>}

\* df is what load_training_data returned; passed, joined, X and y are the
\* frames of prepare_features; split is the class counts of the two parts;
\* fitted tells whether pipeline.fit has returned; returned is what the call
\* gave its caller.
DataIdle ==
  [pc |-> "idle", df |-> <<>>, test_size |-> <<1, 5>>, passed |-> <<>>,
   joined |-> <<>>, X |-> <<>>, y |-> <<>>,
   split |-> [train |-> <<0, 0>>, valid |-> <<0, 0>>],
   fitted |-> FALSE, stage |-> "none", returned |-> NoReturn]

\* Lines 210-212: load_training_data has returned df; prepare_features.
DataPrepare ==
  /\ td.pc = "loaded"
  /\ LET p == prepare_features(td.df)
     IN  td' = [td EXCEPT !.pc = "prepared", !.passed = p.passed,
                          !.joined = p.joined, !.X = p.X, !.y = p.y]
  /\ UNCHANGED <<anomalyVars, modelVars, callbackVars>>

\* The run ends with the exception raised at the given stage.
DataRaise(stage) ==
  [td EXCEPT !.pc = "done", !.stage = stage,
             !.returned = [err |-> "ValueError", metrics |-> Metrics(-1)]]

\* Lines 225-236: build_pipeline, then the stratified split.
DataSplit ==
  /\ td.pc = "prepared"
  /\ LET s == train_test_split(td.y, td.test_size)
     IN  IF s.err # "none"
           THEN td' = DataRaise("split")
           ELSE \E part \in s.parts : td' = [td EXCEPT !.pc = "split", !.split = part]
  /\ UNCHANGED <<anomalyVars, modelVars, callbackVars>>

\* Line 239: pipeline.fit(X_train, y_train).
DataFit ==
  /\ td.pc = "split"
  /\ td' = IF FitRaises(td.split.train)
             THEN DataRaise("fit")
             ELSE [td EXCEPT !.pc = "fitted", !.fitted = TRUE]
  /\ UNCHANGED <<anomalyVars, modelVars, callbackVars>>

\* Lines 242-281: the metrics, then the dump and the return.  No other call
\* runs beside this one, so the dump is taken as one step.
DataPersist ==
  /\ td.pc = "fitted"
  /\ \E out \in MetricsOutcomes(td.split.valid) :
       IF out = "none"
         THEN /\ td' = [td EXCEPT !.pc = "done", !.stage = "returned",
                                  !.returned = [err |-> "none", metrics |-> Metrics(1)]]
              /\ disk' = FileWith(Artifact(1, TrainCategorical, TrainNumeric),
                                  PickleChunks)
              /\ persisted' = persisted + 1
         ELSE /\ td' = DataRaise("metrics")
              /\ UNCHANGED <<disk, persisted>>
  /\ UNCHANGED <<train, readers>>
  /\ UNCHANGED <<anomalyVars, callbackVars>>

\* No train_model run on data is part of the run.
TIdle == td = DataIdle

(***************************************************************************)
(* Inputs of _compute_z_scores                                             *)
(***************************************************************************)
\* avg_dep_delay values a row can carry.
Delays == {Cell(0), Cell(1), Cell(3), NaNCell}

\* Calendar days; one more than rows, so that a series can have a gap.
Days == 1..(MaxLen + 1)

NoResult == [err |-> "pending", rows |-> <<>>]

\* Ascending sequence of the elements of a set of days.
RECURSIVE Ascending(_)
Ascending(S) ==
  IF S = {} THEN <<>>
  ELSE LET m == CHOOSE x \in S : \A y \in S : x <= y
       IN  <<m>> \o Ascending(S \ {m})

Reverse(s) == [i \in 1..Len(s) |-> s[Len(s) + 1 - i]]

\* Frames of n rows: any n distinct days, ascending or descending.
Frames(n) ==
  { [i \in 1..n |-> [date |-> d[i], avg_dep_delay |-> x[i], num_flights |-> 1]] :
      d \in UNION { {Ascending(S), Reverse(Ascending(S))} :
                      S \in {T \in SUBSET Days : Cardinality(T) = n} },
      x \in [1..n -> Delays] }

\* No _compute_z_scores call by a caller of its own is part of the run.
ZIdle ==
  /\ zdf = <<>>
  /\ zwindow = 1
  /\ zminp = 1
  /\ zres = NoResult
  /\ zpc = "idle"

\* No detect_anomalies call is part of the run.
DIdle ==
  /\ fact = <<>>
  /\ dargs = [start_date |-> 1, end_date |-> 1, threshold |-> 0, window |-> 1,
              min_periods |-> 1, min_flights_per_day |-> 1]
  /\ dres = NoResult
  /\ dprev = NoResult
  /\ dpc = "idle"
  /\ lres = NoResult
  /\ lpc = "idle"

ZInit ==
  /\ CIdle
  /\ TIdle
  /\ DIdle
  /\ MIdle
  /\ zpc = "call"
  /\ zres = NoResult
  /\ zwindow \in 1..MaxWindow
  /\ zminp \in 0..zwindow
  /\ \E n \in 0..MaxLen : zdf \in Frames(n)

\* Mutant of CallerFrameAfter: the three columns are assigned to the
\* caller's own frame, sorted in place.
CallerFrameAfterInPlace(df, window, min_periods) ==
  IF compute_z_scores(df, window, min_periods).err = "none"
    THEN compute_z_scores(df, window, min_periods).rows
    ELSE df

\* Lines 85-88: the caller's frame after the call.  The empty frame is
\* returned as it is; otherwise every assignment goes to the sorted copy.
CallerFrameAfter(df, window, min_periods) == df

\* The call _compute_z_scores(df, window, min_periods).
ComputeZ ==
  /\ zpc = "call"
  /\ zres' = compute_z_scores(zdf, zwindow, zminp)
  /\ zdf' = CallerFrameAfter(zdf, zwindow, zminp)
  /\ zpc' = "done"
  /\ UNCHANGED <<zwindow, zminp, fact, dargs, dres, dprev, dpc, lres, lpc>>
  /\ UNCHANGED <<modelVars, callbackVars, dataVars>>

ZNext == ComputeZ

SpecZ == ZInit /\ [][ZNext]_vars

\* Calls whose window and min_periods are any integers the signature
\* accepts: negative, zero, min_periods above window.
ZAnyInit ==
  /\ CIdle
  /\ TIdle
  /\ DIdle
  /\ MIdle
  /\ zpc = "call"
  /\ zres = NoResult
  /\ zwindow \in (-1)..MaxWindow
  /\ zminp \in (-1)..(MaxWindow + 1)
  /\ \E n \in 0..MaxAnyLen : zdf \in Frames(n)

SpecZAny == ZAnyInit /\ [][ZNext]_vars

(***************************************************************************)
(* Single-spike series: all rows carry base, the row at 0-based index k    *)
(* carries spike.                                                          *)
(***************************************************************************)
SpikeFrame(n, base, spike, k) ==
  [i \in 1..n |->
     [date |-> i,
      avg_dep_delay |-> Cell(IF i = k + 1 THEN spike ELSE base),
      num_flights |-> 1]]

\* (base, spike) pairs of the generated series.
SpikePairs == {<<0, 7>>, <<10, 60>>, <<3, -2>>}

SpikeInit ==
  /\ CIdle
  /\ TIdle
  /\ DIdle
  /\ MIdle
  /\ zpc = "call"
  /\ zres = NoResult
  /\ \/ /\ zwindow = TestWindow
        /\ zminp = TestMinPeriods
        /\ zdf = SpikeFrame(TestLen, TestBaseDelay, TestSpikeDelay, TestSpikeIdx)
     \/ /\ zwindow \in 1..MaxSpikeWindow
        /\ zminp \in 0..zwindow
        /\ \E n \in 1..MaxSpikeLen, k \in 0..(MaxSpikeLen - 1), bs \in SpikePairs :
             /\ k < n
             /\ zdf = SpikeFrame(n, bs[1], bs[2], k)

SpecSpike == SpikeInit /\ [][ZNext]_vars

(***************************************************************************)
(* anomaly_detection._load_daily_delays_for_airport and detect_anomalies   *)
(***************************************************************************)
\* The query: the daily groups dated hist_start..end, ORDER BY date.
load_daily_delays_for_airport(table, start_date, end_date, extra_history_days) ==
  LET hist_start == start_date - extra_history_days
  IN  SortByDate(SelectSeq(table,
                           LAMBDA r : hist_start <= r.date /\ r.date <= end_date))

\* Mutant of RestrictPeriod: only the upper end of the range is applied.
RestrictPeriodUpperOnly(rows, start, end) ==
  SelectSeq(rows, LAMBDA r : r.date <= end)

\* df_daily[(date >= start) & (date <= end)]
RestrictPeriod(rows, start, end) ==
  SelectSeq(rows, LAMBDA r : r.date >= start /\ r.date <= end)

\* Mutant of FilterMinFlights: a day with exactly min_flights_per_day flights
\* is dropped.
FilterMinFlightsStrict(rows, min_flights_per_day) ==
  SelectSeq(rows, LAMBDA r : r.num_flights > min_flights_per_day)

\* df_period[num_flights >= min_flights_per_day]
FilterMinFlights(rows, min_flights_per_day) ==
  SelectSeq(rows, LAMBDA r : r.num_flights >= min_flights_per_day)

\* Mutant of AbsGreater: the comparison is not strict.
AbsGreaterOrEqual(z, threshold) ==
  IF z.k = "nan" THEN FALSE
  ELSE IF z.k = "inf" \/ threshold < 0 THEN TRUE
  ELSE z.p >= threshold * threshold * z.q

\* z.abs() > threshold in float arithmetic (a NaN compares false).
AbsGreater(z, threshold) ==
  IF z.k = "nan" THEN FALSE
  ELSE IF z.k = "inf" \/ threshold < 0 THEN TRUE
  ELSE z.p > threshold * threshold * z.q

\* The is_anomaly column, then the five returned columns.
FlagAnomalies(rows, threshold) ==
  [i \in 1..Len(rows) |->
     [date |-> rows[i].date,
      avg_dep_delay |-> rows[i].avg_dep_delay,
      num_flights |-> rows[i].num_flights,
      z_score |-> rows[i].z_score,
      is_anomaly |-> AbsGreater(rows[i].z_score, threshold)]]

\* Mutant of detect_anomalies: the two filters are applied to the loaded
\* series before the z-scores are computed.
detect_anomalies_filter_first(table, a) ==
  LET df_daily == load_daily_delays_for_airport(table, a.start_date, a.end_date,
                                                a.window)
      df_period == FilterMinFlights(
                     RestrictPeriod(df_daily, a.start_date, a.end_date),
                     a.min_flights_per_day)
      scored == compute_z_scores(df_period, a.window, a.min_periods)
  IN  IF df_daily = <<>> THEN [err |-> "none", rows |-> <<>>]
      ELSE IF scored.err # "none" THEN [err |-> scored.err, rows |-> <<>>]
      ELSE [err |-> "none",
            rows |-> SortByDate(FlagAnomalies(scored.rows, a.threshold))]

detect_anomalies(table, a) ==
  LET df_daily == load_daily_delays_for_airport(table, a.start_date, a.end_date,
                                                a.window)
      scored == compute_z_scores(df_daily, a.window, a.min_periods)
      df_period == FilterMinFlights(
                     RestrictPeriod(scored.rows, a.start_date, a.end_date),
                     a.min_flights_per_day)
  IN  IF df_daily = <<>> THEN [err |-> "none", rows |-> <<>>]
      ELSE IF scored.err # "none" THEN [err |-> scored.err, rows |-> <<>>]
      ELSE [err |-> "none",
            rows |-> SortByDate(FlagAnomalies(df_period, a.threshold))]

(***************************************************************************)
(* anomaly_detection.detect_anomalies_list                                 *)
(***************************************************************************)
\* Mutant of SelectAnomalous: every row of the frame is kept.
SelectAnomalousAll(rows) == SelectSeq(rows, LAMBDA r : TRUE)

\* df[df["is_anomaly"]]
SelectAnomalous(rows) == SelectSeq(rows, LAMBDA r : r.is_anomaly)

\* AnomalyResult(date, float(avg_dep_delay), int(num_flights), float(z_score))
\* of a frame row; the columns already hold floats and an integer.
AnomalyResult(row) ==
  [date |-> row.date,
   avg_dep_delay |-> row.avg_dep_delay,
   num_flights |-> row.num_flights,
   z_score |-> row.z_score]

detect_anomalies_list(table, a) ==
  LET df == detect_anomalies(table, a)
      df_anom == SelectAnomalous(df.rows)
  IN  IF df.err # "none" THEN [err |-> df.err, rows |-> <<>>]
      ELSE IF df.rows = <<>> THEN [err |-> "none", rows |-> <<>>]
      ELSE [err |-> "none",
            rows |-> [i \in 1..Len(df_anom) |-> AnomalyResult(df_anom[i])]]

(***************************************************************************)
(* Warehouse contents and arguments of detect_anomalies                    *)
(***************************************************************************)
\* What the warehouse holds for one day: no group, or AVG and COUNT(*).
DayGroups ==
  {[present |-> FALSE, avg |-> 0, n |-> 0]}
    \cup {[present |-> TRUE, avg |-> v, n |-> c] : v \in {0, 3}, c \in {1, 2}}

WarehouseDays == 1..MaxDay

\* The table of daily groups described by g, ascending by date.
RECURSIVE TableOf(_, _)
TableOf(g, d) ==
  IF d > MaxDay THEN <<>>
  ELSE (IF g[d].present
          THEN <<[date |-> d, avg_dep_delay |-> Cell(g[d].avg), num_flights |-> g[d].n]>>
          ELSE <<>>) \o TableOf(g, d + 1)

Thresholds == {-1, 0, 1}

MinFlights == {1, 2}

DInit ==
  /\ CIdle
  /\ TIdle
  /\ ZIdle
  /\ MIdle
  /\ dpc = "call"
  /\ dres = NoResult
  /\ dprev = NoResult
  /\ lpc = "call"
  /\ lres = NoResult
  /\ \E g \in [WarehouseDays -> DayGroups] : fact = TableOf(g, 1)
  /\ \E s \in WarehouseDays, e \in WarehouseDays, w \in 1..MaxDetectWindow,
        t \in Thresholds, m \in MinFlights :
       \E mp \in 1..w :
         dargs = [start_date |-> s, end_date |-> e, threshold |-> t, window |-> w,
                  min_periods |-> mp, min_flights_per_day |-> m]

\* Mutant of DetectAnomalies: a call remembers the days it has reported and
\* leaves them out of the next report.
DetectAnomaliesRemembering ==
  /\ dpc \in {"call", "done"}
  /\ dprev' = dres
  /\ dres' = [detect_anomalies(fact, dargs) EXCEPT
                !.rows = SelectSeq(@, LAMBDA r :
                           \A i \in 1..Len(dres.rows) : dres.rows[i].date # r.date)]
  /\ dpc' = IF dpc = "call" THEN "done" ELSE "repeated"
  /\ UNCHANGED <<fact, dargs, lres, lpc, zdf, zwindow, zminp, zres, zpc>>
  /\ UNCHANGED <<modelVars, callbackVars, dataVars>>

\* The call detect_anomalies(airport_id, start_date, end_date, ...), made
\* once and then once more with the same arguments.  The call reads the
\* warehouse and its arguments and nothing else.
DetectAnomalies ==
  /\ dpc \in {"call", "done"}
  /\ dprev' = dres
  /\ dres' = detect_anomalies(fact, dargs)
  /\ dpc' = IF dpc = "call" THEN "done" ELSE "repeated"
  /\ UNCHANGED <<fact, dargs, lres, lpc, zdf, zwindow, zminp, zres, zpc>>
  /\ UNCHANGED <<modelVars, callbackVars, dataVars>>

\* The call detect_anomalies_list(...) with the same arguments.
DetectAnomaliesList ==
  /\ lpc = "call"
  /\ lres' = detect_anomalies_list(fact, dargs)
  /\ lpc' = "done"
  /\ UNCHANGED <<fact, dargs, dres, dprev, dpc, zdf, zwindow, zminp, zres, zpc>>
  /\ UNCHANGED <<modelVars, callbackVars, dataVars>>

DNext ==
  \/ DetectAnomalies
  \/ DetectAnomaliesList

SpecDetect == DInit /\ [][DNext]_vars

(***************************************************************************)
(* train_model and predict_delay_proba sharing the artifact file           *)
(***************************************************************************)
MInit ==
  /\ CIdle
  /\ TIdle
  /\ ZIdle
  /\ DIdle
  /\ disk \in {Absent} \cup {FileWith(a, PickleChunks) : a \in EarlierArtifacts}
  /\ persisted = IF disk.exists THEN 1 ELSE 0
  /\ train = TrainIdle(0)
  /\ readers = [r \in 1..NumReaders |-> ReaderIdle]

MNext ==
  \/ TrainPrepare
  \/ TrainFit
  \/ TrainFail
  \/ TrainOpen
  \/ TrainWrite
  \/ TrainReturn
  \/ \E r \in 1..NumReaders :
       \/ PredictCall(r)
       \/ PredictLoad(r)
       \/ PredictBuild(r)
       \/ PredictReturn(r)

SpecModel == MInit /\ [][MNext]_vars

(***************************************************************************)
(* The dashboard callback against the file in each state it can be found   *)
(* in                                                                      *)
(***************************************************************************)
\* The file is absent, holds an artifact, or is being rewritten by a
\* train_model run.
CallbackFiles ==
  {Absent}
    \cup {FileWith(a, n) :
            a \in EarlierArtifacts \cup {Artifact(1, TrainCategorical, TrainNumeric)},
            n \in 0..PickleChunks}

CInit ==
  /\ ZIdle
  /\ DIdle
  /\ TIdle
  /\ cb = CallbackIdle
  /\ disk \in CallbackFiles
  /\ persisted = IF disk.exists /\ disk.written = PickleChunks THEN 1 ELSE 0
  /\ train = TrainIdle(MaxTrainRuns)
  /\ readers = [r \in 1..NumReaders |-> ReaderIdle]

CNext == RunCallback

SpecCallback == CInit /\ [][CNext]_vars

(***************************************************************************)
(* One train_model run on each frame load_training_data can return         *)
(***************************************************************************)
TInit ==
  /\ ZIdle
  /\ DIdle
  /\ CIdle
  /\ disk \in {Absent} \cup {FileWith(a, PickleChunks) : a \in EarlierArtifacts}
  /\ persisted = IF disk.exists THEN 1 ELSE 0
  /\ train = TrainIdle(MaxTrainRuns)
  /\ readers = [r \in 1..NumReaders |-> ReaderIdle]
  /\ \E n \in 0..MaxRows, t \in TestSizes :
       \E f \in LoadedFrames(n) :
         td = [DataIdle EXCEPT !.pc = "loaded", !.df = f, !.test_size = t]

TNext ==
  \/ DataPrepare
  \/ DataSplit
  \/ DataFit
  \/ DataPersist

SpecTrainData == TInit /\ [][TNext]_vars

(***************************************************************************)
(* Claims about _compute_z_scores (checked under SpecZ)                    *)
(***************************************************************************)
ZDone == zpc = "done" /\ zres.err = "none"

ZRows == zres.rows

\* Positions of the returned frame inside the last w rows ending at row i
\* whose avg_dep_delay is not NaN.
Observed(i, w) ==
  {j \in 1..Len(ZRows) : j <= i /\ j > i - w /\ ~ZRows[j].avg_dep_delay.nan}

RECURSIVE SumOver(_, _)
SumOver(S, sq) ==
  IF S = {} THEN 0
  ELSE LET j == CHOOSE x \in S : TRUE
           v == ZRows[j].avg_dep_delay.v
       IN  (IF sq THEN v * v ELSE v) + SumOver(S \ {j}, sq)

\* z is the float quotient (x - mean) / std, for a std that is a non-zero number.
IsQuotient(z, x, mean, std) ==
  IF x.nan \/ mean.nan THEN z.k = "nan"
  ELSE /\ z.k = "num"
       /\ z.s = Sign(x.v * mean.q - mean.p)
       /\ z.p * (mean.q * mean.q * std.p)
            = z.q * ((x.v * mean.q - mean.p) * (x.v * mean.q - mean.p) * std.q)

\* C6: for every row produced by _compute_z_scores, z_score is exactly 0.0
\* whenever the row's rolling_std is null or exactly 0; otherwise z_score
\* is (avg_dep_delay - rolling_mean) / rolling_std.
C6_ZScoreZeroOrQuotient ==
  ZDone =>
    \A i \in 1..Len(ZRows) :
      LET r == ZRows[i]
      IN  IF r.rolling_std.k = "nan" \/ (r.rolling_std.k = "num" /\ r.rolling_std.p = 0)
            THEN r.z_score = [k |-> "num", s |-> 0, p |-> 0, q |-> 1]
            ELSE IsQuotient(r.z_score, r.avg_dep_delay, r.rolling_mean, r.rolling_std)

\* C6 witness: one returned frame has a row with null rolling_std, a row with
\* rolling_std exactly 0 and a row with a non-zero z_score.
C6_Witness ==
  /\ ZDone
  /\ \E i \in 1..Len(ZRows) : ZRows[i].rolling_std.k = "nan"
  /\ \E i \in 1..Len(ZRows) :
       ZRows[i].rolling_std.k = "num" /\ ZRows[i].rolling_std.p = 0
  /\ \E i \in 1..Len(ZRows) : ZRows[i].z_score.k = "num" /\ ZRows[i].z_score.s # 0

\* All avg_dep_delay values of the input are one and the same number.
ConstantSeries ==
  /\ Len(zdf) >= 1
  /\ \A i \in 1..Len(zdf) :
       ~zdf[i].avg_dep_delay.nan /\ zdf[i].avg_dep_delay = zdf[1].avg_dep_delay

\* C7: for a constant series longer than window, rolling_std = 0 at every
\* row with at least min_periods observations in its trailing window, and
\* z_score = 0.0 at every row (never null, never NaN).
C7_ConstantSeriesZero ==
  (ZDone /\ ConstantSeries /\ Len(zdf) > zwindow) =>
    \A i \in 1..Len(ZRows) :
      /\ (IF i < zwindow THEN i ELSE zwindow) >= zminp =>
           ZRows[i].rolling_std = [k |-> "num", s |-> 0, p |-> 0, q |-> 1]
      /\ ZRows[i].z_score = [k |-> "num", s |-> 0, p |-> 0, q |-> 1]

\* C7 witness: a constant series longer than window whose first row is not
\* yet eligible (null rolling_std) and whose last row is (rolling_std = 0).
C7_Witness ==
  /\ ZDone /\ ConstantSeries /\ Len(zdf) > zwindow /\ zminp >= 2
  /\ ZRows[1].rolling_std.k = "nan"
  /\ ZRows[Len(ZRows)].rolling_std.k = "num"
  /\ zdf[1].avg_dep_delay.v # 0

\* C8: a row whose trailing window holds fewer than min_periods non-null
\* avg_dep_delay values has null rolling_mean and rolling_std; in particular
\* the first min_periods - 1 rows of the date-sorted series.
C8_TooFewObservationsNull ==
  ZDone =>
    \A i \in 1..Len(ZRows) :
      /\ Cardinality(Observed(i, zwindow)) < zminp =>
           ZRows[i].rolling_mean.nan /\ ZRows[i].rolling_std.k = "nan"
      /\ i <= zminp - 1 =>
           ZRows[i].rolling_mean.nan /\ ZRows[i].rolling_std.k = "nan"

\* C8 witness: a row past the first min_periods - 1 rows is null because a
\* NaN observation leaves its window short, while an earlier row is not null.
C8_Witness ==
  /\ ZDone
  /\ \E i \in 1..Len(ZRows) :
       /\ i >= zminp + 1
       /\ Cardinality(Observed(i, zwindow)) < zminp
       /\ ZRows[i].rolling_mean.nan
       /\ \E j \in 1..(i - 1) : ~ZRows[j].rolling_mean.nan

\* The rows of the input dated no later than day d, in the input's order.
UpTo(d) == SelectSeq(zdf, LAMBDA r : r.date <= d)

\* C9: the returned rows are in ascending date order and, for every row i,
\* rolling_mean and rolling_std are the mean and the population (ddof=0)
\* standard deviation of the non-null avg_dep_delay values among the last
\* window rows ending at i (rows, not calendar days); and row i is the same
\* when every row dated after it is removed (no look-ahead).
C9_TrailingWindowStats ==
  ZDone =>
    /\ \A i, j \in 1..Len(ZRows) : i < j => ZRows[i].date < ZRows[j].date
    /\ \A i \in 1..Len(ZRows) :
         LET obs == Observed(i, zwindow)
             n == Cardinality(obs)
             sx == SumOver(obs, FALSE)
             sxx == SumOver(obs, TRUE)
             r == ZRows[i]
         IN  /\ (n >= zminp /\ n >= 1) =>
                  /\ ~r.rolling_mean.nan
                  /\ r.rolling_mean.p * n = r.rolling_mean.q * sx
                  /\ r.rolling_std.k = "num"
                  /\ r.rolling_std.s >= 0
                  /\ r.rolling_std.p * (n * n) = r.rolling_std.q * (n * sxx - sx * sx)
             /\ compute_z_scores(UpTo(r.date), zwindow, zminp).rows[i] = r

\* C9 witness: an input given in descending date order, with a calendar gap
\* and a NaN, longer than window, whose last row has a non-zero rolling_std.
C9_Witness ==
  /\ ZDone
  /\ Len(zdf) > zwindow /\ zwindow >= 2
  /\ zdf[1].date > zdf[Len(zdf)].date
  /\ zdf[1].date - zdf[Len(zdf)].date > Len(zdf) - 1
  /\ \E i \in 1..Len(zdf) : zdf[i].avg_dep_delay.nan
  /\ ZRows[Len(ZRows)].rolling_std.k = "num"
  /\ ZRows[Len(ZRows)].rolling_std.p > 0

(***************************************************************************)
(* Claims about single-spike series (checked under SpecSpike)              *)
(***************************************************************************)
\* Position i is the one row whose value differs from all the others.
SpikeAt(i) ==
  /\ Len(zdf) >= 3
  /\ i \in 1..Len(zdf)
  /\ \A a, b \in (1..Len(zdf)) \ {i} : zdf[a].avg_dep_delay = zdf[b].avg_dep_delay
  /\ \A a \in (1..Len(zdf)) \ {i} : zdf[a].avg_dep_delay # zdf[i].avg_dep_delay

\* Rows in the trailing window that ends at position i.
WindowRows(i) == IF i < zwindow THEN i ELSE zwindow

\* |z| > 3.0 and |z| < 1.5 for z = s * sqrt(p/q).
AbsAbove3(z) == z.k = "num" /\ z.p > 9 * z.q

AbsBelow1p5(z) == z.k = "num" /\ 4 * z.p < 9 * z.q

\* The frame of the repository's test.
IsTestFrame ==
  /\ zdf = SpikeFrame(TestLen, TestBaseDelay, TestSpikeDelay, TestSpikeIdx)
  /\ zwindow = TestWindow
  /\ zminp = TestMinPeriods

\* C10 as stated: whenever the window at the spike holds n >= 11 rows, the
\* spike row has |z_score| > 3.0 with z_score^2 = n - 1, and every earlier
\* row has |z_score| < 1.5.
C10_Original ==
  ZDone =>
    \A i \in 1..Len(zdf) :
      (SpikeAt(i) /\ WindowRows(i) >= 11) =>
        /\ AbsAbove3(ZRows[i].z_score)
        /\ ZRows[i].z_score.p = (WindowRows(i) - 1) * ZRows[i].z_score.q
        /\ \A j \in 1..(i - 1) : AbsBelow1p5(ZRows[j].z_score)

\* C10 (amended): whenever the window at the spike holds n >= 11 rows and
\* n >= min_periods, the spike row has |z_score| > 3.0 with z_score^2 = n - 1;
\* every row before the spike has |z_score| < 1.5; and for the test's frame
\* (60 points of 10.0, 60.0 at index 40, window 30, min_periods 10) index 40
\* has |z_score| > 3.0 and index 20 has |z_score| < 1.5.
C10_SpikeDetected ==
  ZDone =>
    /\ \A i \in 1..Len(zdf) :
         SpikeAt(i) =>
           /\ (WindowRows(i) >= 11 /\ WindowRows(i) >= zminp) =>
                /\ AbsAbove3(ZRows[i].z_score)
                /\ ZRows[i].z_score.p = (WindowRows(i) - 1) * ZRows[i].z_score.q
           /\ \A j \in 1..(i - 1) : AbsBelow1p5(ZRows[j].z_score)
    /\ IsTestFrame =>
         /\ AbsAbove3(ZRows[TestSpikeIdx + 1].z_score)
         /\ AbsBelow1p5(ZRows[TestNormalIdx + 1].z_score)

\* C10 witness: the test's frame has been scored; its spike row, whose
\* window holds 30 rows, has z_score = sqrt(29).
C10_Witness ==
  /\ ZDone /\ IsTestFrame
  /\ ZRows[TestSpikeIdx + 1].z_score = [k |-> "num", s |-> 1, p |-> 29, q |-> 1]

(***************************************************************************)
(* Claims about detect_anomalies (checked under SpecDetect)                *)
(***************************************************************************)
DDone == dpc \in {"done", "repeated"} /\ dres.err = "none"

\* C1: every row returned by detect_anomalies has start_date <= date <=
\* end_date and num_flights >= min_flights_per_day; no row loaded only as
\* lookback history (date < start_date) is returned.
C1_RowsInRangeWithEnoughFlights ==
  DDone =>
    \A i \in 1..Len(dres.rows) :
      /\ dargs.start_date <= dres.rows[i].date
      /\ dres.rows[i].date <= dargs.end_date
      /\ dres.rows[i].num_flights >= dargs.min_flights_per_day

\* C1 witness: a call returns a row while the loaded span also holds a
\* lookback day (start_date - window <= date < start_date) and an in-range
\* day with fewer than min_flights_per_day flights.
C1_Witness ==
  /\ DDone
  /\ Len(dres.rows) >= 1
  /\ \E i \in 1..Len(fact) :
       fact[i].date < dargs.start_date /\ fact[i].date >= dargs.start_date - dargs.window
  /\ \E i \in 1..Len(fact) :
       /\ fact[i].date >= dargs.start_date /\ fact[i].date <= dargs.end_date
       /\ fact[i].num_flights < dargs.min_flights_per_day

(***************************************************************************)
(* Claims about the model artifact (checked under SpecModel)               *)
(***************************************************************************)
\* Reader r has read the artifact file.
HasRead(r) == readers[r].read >= 0

\* C2: the persist step of train_model is an atomic replace: every load of
\* the artifact file by a predict_delay_proba call sees a complete artifact
\* (the previous one or the new one), never a partially written one.
C2_LoadNeverSeesPartialArtifact ==
  \A r \in 1..NumReaders :
    HasRead(r) => readers[r].read = PickleChunks

\* Reader r has handed its single-row frame to the loaded pipeline.
HasHanded(r) == readers[r].handed # <<>>

\* C3: the seven categorical and four numeric feature names are the same, in
\* the same order, in the matrix built by prepare_features, in the lists
\* train_model passes to build_pipeline and stores in the artifact, and in
\* the record predict_delay_proba builds.
C3_FeatureListsAgree ==
  /\ train.pc \in {"fitted", "dumping"} =>
       /\ train.xcols = train.art.categorical_features \o train.art.numeric_features
       /\ train.art.pipeline.columns = train.xcols
       /\ Len(train.art.categorical_features) = 7
       /\ Len(train.art.numeric_features) = 4
  /\ \A r \in 1..NumReaders :
       (HasHanded(r) /\ readers[r].loaded.pipeline.fitted_in >= 1) =>
         readers[r].handed
           = readers[r].loaded.categorical_features \o readers[r].loaded.numeric_features

\* C3 witness: a prediction has been computed from an artifact that
\* train_model persisted, while the next run has fitted its pipeline.
C3_Witness ==
  /\ train.pc = "fitted"
  /\ \E r \in 1..NumReaders :
       /\ readers[r].outcome = "probability"
       /\ readers[r].loaded.pipeline.fitted_in >= 1

\* C4: the columns predict_delay_proba hands to the fitted pipeline are the
\* categorical and numeric lists stored in the loaded artifact, in the
\* artifact's order, whatever lists the artifact stores.
C4_RowUsesArtifactLists ==
  \A r \in 1..NumReaders :
    HasHanded(r) =>
      readers[r].handed
        = readers[r].loaded.categorical_features \o readers[r].loaded.numeric_features

\* C5: a predict_delay_proba call made while no artifact has ever been
\* persisted fails with FileNotFoundError ("train the model first"), for
\* every input, and with no other exception.
C5_NoArtifactMeansModelNotFound ==
  \A r \in 1..NumReaders :
    (readers[r].pc = "done" /\ persisted = 0) =>
      readers[r].outcome = "FileNotFoundError"

(***************************************************************************)
(* Claims about rejected inputs of _compute_z_scores                       *)
(***************************************************************************)
\* The frame is in ascending date order.
SortedAscending(df) == \A i \in 1..(Len(df) - 1) : df[i].date < df[i + 1].date

\* C11: _compute_z_scores fails (InvalidInput) whenever its input is not
\* sorted ascending by date; it never returns rolling statistics for an
\* unsorted input.
C11_UnsortedInputRejected ==
  (zpc = "done" /\ ~SortedAscending(zdf)) =>
    (zres.err # "none" /\ zres.rows = <<>>)

\* C12: for every input sequence, the empty one included, _compute_z_scores
\* fails (InvalidInput) when min_periods > window or when window <= 0, and
\* returns no result.
C12_InvalidWindowRejected ==
  (zpc = "done" /\ (zminp > zwindow \/ zwindow <= 0)) =>
    (zres.err # "none" /\ zres.rows = <<>>)

(***************************************************************************)
(* Claims about the report of detect_anomalies (checked under SpecDetect)  *)
(***************************************************************************)
\* C13: for every row returned by detect_anomalies, is_anomaly is true if
\* and only if |z_score| is strictly greater than threshold; a row whose
\* |z_score| equals threshold exactly is returned with is_anomaly = false.
C13_StrictThreshold ==
  DDone =>
    \A i \in 1..Len(dres.rows) :
      LET z == dres.rows[i].z_score
          t == dargs.threshold
      IN  /\ z.k = "num"
          /\ dres.rows[i].is_anomaly <=> (t < 0 \/ z.p > t * t * z.q)
          /\ (t >= 0 /\ z.p = t * t * z.q) => ~dres.rows[i].is_anomaly

\* C13 witness: with threshold 1 a row whose z_score is 1 or -1 is returned
\* and is not flagged.
C13_Witness ==
  /\ DDone
  /\ dargs.threshold = 1
  /\ \E i \in 1..Len(dres.rows) :
       /\ dres.rows[i].z_score.s # 0
       /\ dres.rows[i].z_score.p = dres.rows[i].z_score.q
       /\ ~dres.rows[i].is_anomaly

\* Positions of the warehouse days inside [start_date, end_date] that have
\* at least min_flights_per_day flights.
EligibleDays ==
  {i \in 1..Len(fact) :
     /\ dargs.start_date <= fact[i].date
     /\ fact[i].date <= dargs.end_date
     /\ fact[i].num_flights >= dargs.min_flights_per_day}

\* C14: detect_anomalies returns exactly one row for every loaded day whose
\* date lies in [start_date, end_date] and whose num_flights is at least
\* min_flights_per_day, anomalous or not, and the rows are in strictly
\* ascending date order.
C14_OneRowPerEligibleDay ==
  DDone =>
    /\ Len(dres.rows) = Cardinality(EligibleDays)
    /\ \A i \in EligibleDays :
         \E j \in 1..Len(dres.rows) :
           /\ dres.rows[j].date = fact[i].date
           /\ dres.rows[j].avg_dep_delay = fact[i].avg_dep_delay
           /\ dres.rows[j].num_flights = fact[i].num_flights
    /\ \A j, k \in 1..Len(dres.rows) : j < k => dres.rows[j].date < dres.rows[k].date

\* C14 witness: a report of at least two rows, one flagged and one not, one
\* of them with exactly min_flights_per_day flights, while another day of
\* the range is left out for having too few flights.
C14_Witness ==
  /\ DDone
  /\ Len(dres.rows) >= 2
  /\ \E j \in 1..Len(dres.rows) : dres.rows[j].is_anomaly
  /\ \E j \in 1..Len(dres.rows) : ~dres.rows[j].is_anomaly
  /\ \E j \in 1..Len(dres.rows) : dres.rows[j].num_flights = dargs.min_flights_per_day
  /\ \E i \in 1..Len(fact) :
       /\ dargs.start_date <= fact[i].date /\ fact[i].date <= dargs.end_date
       /\ fact[i].num_flights < dargs.min_flights_per_day

\* The detect_anomalies_list call has returned.
LDone == lpc = "done" /\ lres.err = "none"

\* Positions of the flagged rows of the detect_anomalies report.
Flagged == {j \in 1..Len(dres.rows) : dres.rows[j].is_anomaly}

\* C15: for identical arguments and warehouse state, detect_anomalies_list
\* returns exactly one AnomalyResult per row of detect_anomalies' output that
\* has is_anomaly = true, in the same ascending date order and with the same
\* date, avg_dep_delay, num_flights and z_score; nothing for the other rows;
\* the empty list when detect_anomalies returns no rows.
C15_ListIsFlaggedSubset ==
  (DDone /\ LDone) =>
    /\ Len(lres.rows) = Cardinality(Flagged)
    /\ \A j \in Flagged :
         \E k \in 1..Len(lres.rows) :
           /\ lres.rows[k].date = dres.rows[j].date
           /\ lres.rows[k].avg_dep_delay = dres.rows[j].avg_dep_delay
           /\ lres.rows[k].num_flights = dres.rows[j].num_flights
           /\ lres.rows[k].z_score = dres.rows[j].z_score
    /\ \A k, l \in 1..Len(lres.rows) : k < l => lres.rows[k].date < lres.rows[l].date
    /\ dres.rows = <<>> => lres.rows = <<>>

\* C15 witness: both calls have returned, the list holds two records and the
\* report also holds a row that is not flagged.
C15_Witness ==
  /\ DDone /\ LDone
  /\ Len(lres.rows) = 2
  /\ lres.rows[1].z_score.s # 0
  /\ \E j \in 1..Len(dres.rows) : ~dres.rows[j].is_anomaly

C17_MissingInputBeforeModel ==
  \A r \in 1..NumReaders :
    (readers[r].pc = "done" /\ readers[r].input.none # {}) =>
      (readers[r].outcome = "MissingInput" /\ ~HasRead(r))

\* C18: all seven inference inputs are required: a call that omits the
\* same-slot departure count is rejected, not completed with a default value
\* put in its place.
C18_OmittedCountRejected ==
  \A r \in 1..NumReaders :
    (readers[r].pc = "done" /\ readers[r].input.omitted # {}) =>
      readers[r].outcome # "probability"

\* t is s without its leading and trailing blanks.
IsStripOf(t, s) ==
  \E a \in 0..Len(s) :
    /\ a + Len(t) <= Len(s)
    /\ \A k \in 1..Len(t) : t[k] = s[a + k]
    /\ \A k \in 1..Len(s) : (k <= a \/ k > a + Len(t)) => s[k] = " "
    /\ t # <<>> => (t[1] # " " /\ t[Len(t)] # " ")

\* Lower-case and upper-case forms of the letters the inputs use.
Letters == {<<"j", "J">>, <<"f", "F">>, <<"k", "K">>, <<"l", "L">>, <<"m", "M">>}

\* u is t with every lower-case letter replaced by its upper-case form.
IsUpperOf(u, t) ==
  /\ Len(u) = Len(t)
  /\ \A k \in 1..Len(t) :
       IF \E l \in Letters : l[1] = t[k]
         THEN <<t[k], u[k]>> \in Letters
         ELSE u[k] = t[k]

\* C19: the single-row frame handed to the pipeline has arr_airport_id equal
\* to the trimmed, upper-cased departure airport, month = 1, day_of_week = 1,
\* is_weekend = false, and its other seven fields equal the caller's inputs
\* (airport trimmed and upper-cased, airline and time label trimmed, numeric
\* values unchanged).
C19_InferenceRowDefaults ==
  \A r \in 1..NumReaders :
    HasHanded(r) =>
      LET i == readers[r].input
          row == readers[r].row
      IN  /\ DOMAIN row = Range(InferenceColumns)
          /\ \E a \in 1..Len(i.airport_id) :
               LET t == SubSeq(i.airport_id, a, a + Len(row.dep_airport_id) - 1)
               IN  /\ a + Len(row.dep_airport_id) - 1 <= Len(i.airport_id)
                   /\ IsStripOf(t, i.airport_id)
                   /\ IsUpperOf(row.dep_airport_id, t)
          /\ row.arr_airport_id = row.dep_airport_id
          /\ row.month = 1
          /\ row.day_of_week = 1
          /\ row.is_weekend = FALSE
          /\ IsStripOf(row.airline_id, i.airline_id)
          /\ IsStripOf(row.dep_time_label, i.dep_time_label)
          /\ row.tavg.tenths = i.tavg.tenths
          /\ row.prcp.tenths = i.prcp.tenths
          /\ row.wspd.tenths = i.wspd.tenths
          /\ i.omitted = {} =>
               row.num_departures_same_slot_airport.tenths
                 = i.num_departures_same_slot_airport.tenths

\* C19 witness: a call that passes all seven arguments, its airport padded
\* and in lower case, has handed its frame to the pipeline and has its
\* probability.
C19_Witness ==
  \E r \in 1..NumReaders :
    /\ HasHanded(r)
    /\ readers[r].outcome = "probability"
    /\ readers[r].input.omitted = {}
    /\ readers[r].input.airport_id # readers[r].row.dep_airport_id
    /\ readers[r].row.arr_airport_id = <<"J", "F", "K">>

\* C20: whenever a persisted artifact exists, predict_delay_proba returns a
\* probability for every well-typed input and does not raise.  (A call that
\* ends while an artifact is persisted, and that has not loaded an artifact
\* stored with other feature lists, ends with a probability.)
C20_ArtifactMeansProbability ==
  [][\A r \in 1..NumReaders :
       (/\ persisted >= 1
        /\ readers[r].pc # "done"
        /\ readers'[r].pc = "done"
        /\ readers'[r].input.none = {}
        /\ readers'[r].loaded \notin EarlierArtifacts)
         => readers'[r].outcome = "probability"]_vars

(***************************************************************************)
(* Claims about the argument of _compute_z_scores (checked under SpecZ)    *)
(***************************************************************************)
\* C25: _compute_z_scores has no side effects on its argument: after the
\* call the caller's frame has the same rows, order and columns as before,
\* and the result has the same number of rows as the input, with the date,
\* avg_dep_delay and num_flights values unchanged.
C25_ArgumentUntouched ==
  [][(zpc = "call" /\ zpc' = "done") =>
       /\ zdf' = zdf
       /\ zres'.err = "none" =>
            /\ Len(zres'.rows) = Len(zdf)
            /\ \A i \in 1..Len(zdf) :
                 \E j \in 1..Len(zres'.rows) :
                   /\ zres'.rows[j].date = zdf[i].date
                   /\ zres'.rows[j].avg_dep_delay = zdf[i].avg_dep_delay
                   /\ zres'.rows[j].num_flights = zdf[i].num_flights]_vars

\* C25 witness: the call has returned a frame with the three new columns in
\* another row order than the caller's frame, which still has its three
\* columns and its descending order.
C25_Witness ==
  /\ ZDone
  /\ Len(zdf) >= 3
  /\ zdf[1].date > zdf[2].date
  /\ \A i \in 1..Len(zdf) : DOMAIN zdf[i] = {"date", "avg_dep_delay", "num_flights"}
  /\ ZRows[1].date < ZRows[2].date
  /\ "z_score" \in DOMAIN ZRows[1]
  /\ ~ZRows[Len(ZRows)].rolling_mean.nan

(***************************************************************************)
(* Claims about the series detect_anomalies scores (checked under          *)
(* SpecDetect)                                                             *)
(***************************************************************************)
\* Positions of the warehouse days the call loads: start_date - window up to
\* end_date.
LoadedDays ==
  {i \in 1..Len(fact) :
     /\ fact[i].date >= dargs.start_date - dargs.window
     /\ fact[i].date <= dargs.end_date}

\* The last window loaded days up to and including position i.
TrailingDays(i) ==
  {k \in LoadedDays :
     k <= i /\ Cardinality({m \in LoadedDays : k < m /\ m <= i}) < dargs.window}

RECURSIVE FactSum(_, _)
FactSum(S, sq) ==
  IF S = {} THEN 0
  ELSE LET k == CHOOSE x \in S : TRUE
           v == fact[k].avg_dep_delay.v
       IN  (IF sq THEN v * v ELSE v) + FactSum(S \ {k}, sq)

\* For day i with trailing window T of n days: n, n * n times the population
\* variance of T, and n times the deviation of day i from the mean of T.
DayStats(i) ==
  LET T == TrailingDays(i)
      n == Cardinality(T)
      sx == FactSum(T, FALSE)
  IN  [n |-> n,
       var |-> n * FactSum(T, TRUE) - sx * sx,
       dev |-> n * fact[i].avg_dep_delay.v - sx]

\* Day i has too little history or a flat window.
Unscorable(st) == st.n < dargs.min_periods \/ st.var = 0

\* The day at position i is left out of the report.
Excluded(i) ==
  \/ fact[i].date < dargs.start_date
  \/ fact[i].num_flights < dargs.min_flights_per_day

\* The loaded days with the date of a returned row.
DaysOf(row) == {i \in LoadedDays : fact[i].date = row.date}

\* C28: the date-range filter and the min_flights_per_day filter are applied
\* only after z-scores are computed over the whole loaded series: a day before
\* start_date and a day with too few flights are excluded from the output,
\* yet count as observations in the trailing windows of later days, so a
\* returned row's z_score is the one computed on the unfiltered series.
C28_ScoredBeforeFiltered ==
  DDone =>
    /\ \A i \in LoadedDays :
         Excluded(i) => \A j \in 1..Len(dres.rows) : dres.rows[j].date # fact[i].date
    /\ \A j \in 1..Len(dres.rows) :
         /\ DaysOf(dres.rows[j]) # {}
         /\ \A i \in DaysOf(dres.rows[j]) :
              LET st == DayStats(i)
                  z == dres.rows[j].z_score
              IN  ~Unscorable(st) =>
                    /\ z.k = "num"
                    /\ z.s = Sign(st.dev)
                    /\ z.p * st.var = z.q * st.dev * st.dev

\* C28 witness: a returned row has a non-zero z_score and its trailing window
\* holds a day before start_date, while a day of the range is left out for
\* having too few flights.
C28_Witness ==
  /\ DDone
  /\ \E j \in 1..Len(dres.rows), i \in LoadedDays :
       /\ fact[i].date = dres.rows[j].date
       /\ dres.rows[j].z_score.s # 0
       /\ \E k \in TrailingDays(i) : fact[k].date < dargs.start_date
  /\ \E i \in LoadedDays :
       fact[i].date >= dargs.start_date
         /\ fact[i].num_flights < dargs.min_flights_per_day

\* C30: for every threshold >= 0, detect_anomalies never flags a day whose
\* trailing window holds fewer than min_periods observations or whose
\* rolling_std is 0: such a day, if returned, has z_score = 0.0 and
\* is_anomaly = false; with a negative threshold it is flagged.
C30_UnscorableDayNotFlagged ==
  DDone =>
    \A j \in 1..Len(dres.rows) :
      \A i \in DaysOf(dres.rows[j]) :
        Unscorable(DayStats(i)) =>
          /\ dres.rows[j].z_score = [k |-> "num", s |-> 0, p |-> 0, q |-> 1]
          /\ dres.rows[j].is_anomaly <=> dargs.threshold < 0

\* C30 witness: with threshold 0 a report holds a day with too little history
\* and a day with a flat window, neither flagged, beside a flagged day.
C30_Witness ==
  /\ DDone
  /\ dargs.threshold = 0
  /\ \E j \in 1..Len(dres.rows), i \in LoadedDays :
       /\ fact[i].date = dres.rows[j].date
       /\ Cardinality(TrailingDays(i)) < dargs.min_periods
       /\ ~dres.rows[j].is_anomaly
  /\ \E j \in 1..Len(dres.rows), i \in LoadedDays :
       /\ fact[i].date = dres.rows[j].date
       /\ DayStats(i).n >= dargs.min_periods
       /\ DayStats(i).var = 0
       /\ ~dres.rows[j].is_anomaly
  /\ \E j \in 1..Len(dres.rows) : dres.rows[j].is_anomaly

(***************************************************************************)
(* Claims about run_predictive_delay (checked under SpecCallback)          *)
(***************************************************************************)
CDone == cb.pc = "done"

Clicked == ~cb.n_clicks.isNone /\ cb.n_clicks.v > 0

\* The form fields that hold None.
AbsentInputs == {n \in Range(CallbackInputs) : cb.values[n] = "none"}

\* C27: run_predictive_delay never raises and always returns a text: the
\* prompt when there is no click; when an input is absent, one message that
\* lists every absent input, without a call of predict_delay_proba; the
\* dedicated no-trained-model message when the call fails for a missing
\* file, and the generic message, a different text, for every other failure
\* of the call.
C27_CallbackAlwaysAnswers ==
  CDone =>
    /\ cb.raised = "none"
    /\ cb.text # ""
    /\ ~Clicked => (cb.text = PromptText /\ ~cb.called)
    /\ (Clicked /\ AbsentInputs # {}) =>
         /\ cb.text = MissingText
         /\ \A n \in AbsentInputs : InputLabel(n) \in Range(cb.detail)
         /\ ~cb.called
    /\ (cb.called /\ cb.outcome = "FileNotFoundError") => cb.text = NoModelText
    /\ (cb.called /\ cb.outcome \notin {"FileNotFoundError", "probability"}) =>
         (cb.text = ErrorText /\ cb.text # NoModelText)
    /\ cb.called => (cb.outcome = "FileNotFoundError" <=> ~disk.exists)

\* C27 witness: a click with two absent inputs is answered with the message
\* naming both.
C27_Witness ==
  /\ CDone
  /\ Clicked
  /\ AbsentInputs = {"airline_id", "num_deps"}
  /\ cb.detail = <<"Airline", ", ", "Anzahl Abfluege im Slot">>
  /\ disk = Absent

(***************************************************************************)
(* Claims about train_model runs and the file (checked under SpecModel)    *)
(***************************************************************************)
\* The last train_model call has returned its metrics.
TrainCompleted == train.pc = "idle" /\ train.returned.err = "none"

\* The last train_model call has raised.
TrainFailed == train.pc = "idle" /\ train.returned.err = "Exception"

\* C22: a train_model run that completes returns a mapping with exactly the
\* keys accuracy, precision, recall and roc_auc, and at that point the file
\* holds one object with the pipeline fitted in this run, the categorical and
\* numeric name lists used to fit it and the metrics that were returned;
\* nothing of the artifact persisted before remains.
C22_CompletedRunIsPersisted ==
  TrainCompleted =>
    /\ DOMAIN train.returned.metrics = {"accuracy", "precision", "recall", "roc_auc"}
    /\ disk.exists
    /\ disk.written = PickleChunks
    /\ DOMAIN disk.art
         = {"pipeline", "categorical_features", "numeric_features", "metrics"}
    /\ disk.art.pipeline.fitted_in = train.runs
    /\ disk.art.categorical_features = TrainCategorical
    /\ disk.art.numeric_features = TrainNumeric
    /\ disk.art.pipeline.columns
         = disk.art.categorical_features \o disk.art.numeric_features
    /\ disk.art.metrics = train.returned.metrics
    /\ disk.art.metrics = Metrics(train.runs)
    /\ disk # train.before

\* C22 witness: the second run has completed over the artifact the first run
\* persisted.
C22_Witness ==
  /\ TrainCompleted
  /\ train.runs = 2
  /\ train.before.exists
  /\ train.before.art.pipeline.fitted_in = 1
  /\ train.before.written = PickleChunks

\* C29: persisting is the last effect of train_model: when a run fails at
\* loading, feature preparation, splitting, fitting or metric computation,
\* the file is exactly what it was before the run (the previous artifact, or
\* still absent), so a later predict_delay_proba finds what it would have
\* found without the run.
C29_FailedRunLeavesFile ==
  TrainFailed => disk = train.before

\* C29 witness: a run has failed after an earlier run had persisted its
\* artifact, and a prediction made since the failure has used that artifact.
C29_Witness ==
  /\ TrainFailed
  /\ train.runs = 2
  /\ disk.exists
  /\ disk.art.pipeline.fitted_in = 1
  /\ \E r \in 1..NumReaders :
       /\ readers[r].outcome = "probability"
       /\ readers[r].loaded = disk.art

\* C26: every predict_delay_proba call loads the file afresh: a call that
\* starts after a train_model run has finished persisting uses the artifact
\* of the most recently completed run, never that of an earlier run (and
\* never none at all).
C26_CallUsesLatestArtifact ==
  [][\A r \in 1..NumReaders :
       (/\ readers[r].pc = "load"
        /\ readers'[r].pc # "load"
        /\ readers[r].after >= 1)
         => /\ readers'[r].outcome # "EOFError"
            /\ readers'[r].loaded = disk.art
            /\ disk.written = PickleChunks]_vars

(***************************************************************************)
(* Claims about the training data (checked under SpecTrainData)            *)
(***************************************************************************)
\* prepare_features has returned.
Prepared == td.pc \in {"prepared", "split", "fitted", "done"}

\* The ten feature source fields and the label.
TenFeatureFields ==
  {"dep_airport_id", "arr_airport_id", "airline_id", "dep_time_label",
   "month", "day_of_week", "is_weekend", "tavg", "prcp", "wspd"}

\* Positions of the loaded rows in which no feature source field and not the
\* label is null.
CompleteRows ==
  {i \in 1..Len(td.df) :
     td.df[i].nulls \cap (TenFeatureFields \cup {"is_delayed_15"}) = {}}

\* The label classes among the complete rows.
LabelClasses == {td.df[i].is_delayed_15 : i \in CompleteRows}

\* C21: train_model fails (InsufficientData, here sklearn's ValueError) when,
\* after the rows with a missing required field are dropped, the dataset is
\* empty or holds fewer than two label classes; in neither case does it fit
\* a model or return metrics.
C21_InsufficientDataFails ==
  (Prepared /\ Cardinality(LabelClasses) < 2) =>
    /\ td.pc \in {"prepared", "split", "done"}
    /\ ~td.fitted
    /\ td.returned.err # "none"
    /\ td.pc = "done" =>
         (td.returned.err = "ValueError" /\ td.stage \in {"split", "fit"})

\* C21 witness: rows were dropped, the rest is one class with enough rows
\* for the split, and the run has ended in the fit.
C21_Witness ==
  /\ td.pc = "done"
  /\ td.stage = "fit"
  /\ Cardinality(LabelClasses) = 1
  /\ Cardinality(CompleteRows) < Len(td.df)
  /\ Cardinality(CompleteRows) >= 2

\* Rows a and b are the same flight record.
SameRecord(a, b) ==
  /\ a.index = b.index
  /\ a.flight_date_id = b.flight_date_id
  /\ a.dep_airport_id = b.dep_airport_id
  /\ a.dep_time_label = b.dep_time_label
  /\ a.is_delayed_15 = b.is_delayed_15
  /\ a.nulls = b.nulls

\* C23: add_congestion_feature returns the records it was passed, in the
\* same order, each with an integer num_departures_same_slot_airport >= 1
\* equal to the number of passed records that share its (flight_date_id,
\* dep_airport_id, dep_time_label); the result does not depend on the order
\* of the passed records.
C23_CongestionCountsSlot ==
  Prepared =>
    /\ Len(td.joined) = Len(td.passed)
    /\ \A i \in 1..Len(td.passed) :
         /\ SameRecord(td.joined[i], td.passed[i])
         /\ ~td.joined[i].num_departures_same_slot_airport.nan
         /\ td.joined[i].num_departures_same_slot_airport.v >= 1
         /\ td.joined[i].num_departures_same_slot_airport.v
              = Cardinality({j \in 1..Len(td.passed) :
                   /\ td.passed[j].flight_date_id = td.passed[i].flight_date_id
                   /\ td.passed[j].dep_airport_id = td.passed[i].dep_airport_id
                   /\ td.passed[j].dep_time_label = td.passed[i].dep_time_label})
    /\ add_congestion_feature(Reverse(td.passed)) = Reverse(td.joined)

\* C23 witness: the first and the third passed record share a slot, the
\* second is in another slot of the same day and airport.
C23_Witness ==
  /\ Prepared
  /\ Len(td.joined) >= 3
  /\ td.joined[1].num_departures_same_slot_airport.v = 2
  /\ td.joined[2].num_departures_same_slot_airport.v = 1
  /\ td.joined[3].num_departures_same_slot_airport.v = 2
  /\ td.joined[1].flight_date_id = td.joined[2].flight_date_id
  /\ td.joined[1].dep_time_label # td.joined[2].dep_time_label
  /\ td.joined[1].dep_time_label = td.joined[3].dep_time_label

\* C24: prepare_features returns one feature row and one label for exactly
\* the input rows in which the ten feature source fields and is_delayed_15
\* are all non-null; a row with one of them null gives neither.
C24_PreparedRowsAreCompleteRows ==
  Prepared =>
    /\ Len(td.X) = Cardinality(CompleteRows)
    /\ Len(td.y) = Len(td.X)
    /\ \A i \in CompleteRows : \E k \in 1..Len(td.X) : td.X[k].index = i - 1
    /\ \A k \in 1..Len(td.X) :
         /\ td.X[k].index + 1 \in CompleteRows
         /\ td.y[k].index = td.X[k].index
         /\ td.y[k].label = td.df[td.X[k].index + 1].is_delayed_15
         /\ td.X[k].dep_time_label = td.df[td.X[k].index + 1].dep_time_label
         /\ k > 1 => td.X[k - 1].index < td.X[k].index

\* C24 witness: a frame with a row without tavg, a row without label and a
\* row without departure-time label gives a feature row for its fourth row.
C24_Witness ==
  /\ Prepared
  /\ Len(td.X) >= 1
  /\ \A c \in {"tavg", "is_delayed_15", "dep_time_label"} :
       \E i \in 1..Len(td.df) : c \in td.df[i].nulls

====
